---- MODULE Spec2Model ----
(***************************************************************************)
(* Voice-cloning TTS front end (app.py): the synthesis pipeline            *)
(* generate_tts, the audio normaliser convert_audio, the listing           *)
(* get_generated_files and the guarded deletion delete_file, over a small  *)
(* POSIX file system.                                                      *)
(*                                                                         *)
(* Representation.  A path is the tuple of its pathlib parts: an absolute  *)
(* path starts with the part "/", a relative one does not, and the empty   *)
(* tuple stands for an absent value (None, or the empty string).  Texts,   *)
(* file names and log lines are strings and are taken apart character by   *)
(* character.  status_message is the sequence of the lines appended to it. *)
(* Non-ASCII characters of the program's messages are transliterated       *)
(* (ae, oe, ue) and the leading emoji are left out.                        *)
(***************************************************************************)
EXTENDS Naturals, Sequences, FiniteSets, TLC

\* ------------------------------------------------------------------ bounds

\* Clock ticks the model runs for; TicksPerSecond ticks make one second.
MaxClock == 2
TicksPerSecond == 2

\* ----------------------------------------------------------------- strings

None == <<>>

Front(s) == SubSeq(s, 1, Len(s) - 1)

Last(s) == s[Len(s)]

\* str.startswith
StartsWith(s, pre) == Len(s) >= Len(pre) /\ SubSeq(s, 1, Len(pre)) = pre

\* str.endswith
EndsWith(s, suf) ==
    /\ Len(s) >= Len(suf)
    /\ SubSeq(s, Len(s) - Len(suf) + 1, Len(s)) = suf

\* substring test (Python's "in" on strings)
Contains(s, sub) ==
    \E i \in 1..(Len(s) + 1) :
        /\ i + Len(sub) - 1 <= Len(s)
        /\ SubSeq(s, i, i + Len(sub) - 1) = sub

LowerChar(c) ==
    CASE c = "A" -> "a" [] c = "B" -> "b" [] c = "C" -> "c" [] c = "D" -> "d"
      [] c = "E" -> "e" [] c = "F" -> "f" [] c = "G" -> "g" [] c = "H" -> "h"
      [] c = "I" -> "i" [] c = "J" -> "j" [] c = "K" -> "k" [] c = "L" -> "l"
      [] c = "M" -> "m" [] c = "N" -> "n" [] c = "O" -> "o" [] c = "P" -> "p"
      [] c = "Q" -> "q" [] c = "R" -> "r" [] c = "S" -> "s" [] c = "T" -> "t"
      [] c = "U" -> "u" [] c = "V" -> "v" [] c = "W" -> "w" [] c = "X" -> "x"
      [] c = "Y" -> "y" [] c = "Z" -> "z" [] OTHER -> c

RECURSIVE Lower(_)
\* str.lower
Lower(s) ==
    IF Len(s) = 0 THEN ""
    ELSE LowerChar(SubSeq(s, 1, 1)) \o Lower(SubSeq(s, 2, Len(s)))

\* the characters str.strip removes
IsSpace(c) == c \in {" ", "\t", "\n"}

RECURSIVE Strip(_)
\* str.strip
Strip(s) ==
    IF Len(s) = 0 THEN ""
    ELSE IF IsSpace(SubSeq(s, 1, 1)) THEN Strip(SubSeq(s, 2, Len(s)))
    ELSE IF IsSpace(SubSeq(s, Len(s), Len(s))) THEN Strip(SubSeq(s, 1, Len(s) - 1))
    ELSE s

RECURSIVE JoinWith(_, _)
\* sep.join(parts)
JoinWith(parts, sep) ==
    IF Len(parts) = 0 THEN ""
    ELSE IF Len(parts) = 1 THEN parts[1]
    ELSE parts[1] \o sep \o JoinWith(Tail(parts), sep)

\* ------------------------------------------------------------------- paths

\* str(Path)
PathStr(p) ==
    IF p = <<>> THEN "."
    ELSE IF p[1] = "/" THEN "/" \o JoinWith(Tail(p), "/")
    ELSE JoinWith(p, "/")

\* Path.name
Name(p) == IF Len(p) = 0 \/ p = <<"/">> THEN "" ELSE Last(p)

\* position of the last "." of a name, 0 when it has none
LastDot(n) ==
    LET dots == {i \in 1..Len(n) : SubSeq(n, i, i) = "."}
    IN  IF dots = {} THEN 0 ELSE CHOOSE i \in dots : \A j \in dots : j <= i

\* Path.stem: the name without its last suffix; a leading or a trailing dot
\* starts no suffix
Stem(p) ==
    LET n == Name(p)
        i == LastDot(n)
    IN  IF i > 1 /\ i < Len(n) THEN SubSeq(n, 1, i - 1) ELSE n

\* Path.parents: every proper ancestor of a path
Parents(p) ==
    {SubSeq(p, 1, k) : k \in (IF Len(p) > 0 /\ p[1] = "/" THEN 1 ELSE 0)..(Len(p) - 1)}

\* p / name
Join(p, q) == p \o q

\* ------------------------------------------------------------- file system

\* The process's working directory and the directories of the file system.
Cwd == <<"/", "app">>

\* output_dir = Path("generierte_stimmen")
output_dir == <<"generierte_stimmen">>

\* tempfile.gettempdir()
TempDir == <<"/", "tmp">>

Dirs ==
    { <<"/">>, <<"/", "app">>, <<"/", "tmp">>, <<"/", "up">>,
      <<"/", "up", "a">>, <<"/", "up", "b">>,
      <<"/", "app", "generierte_stimmen">>,
      <<"/", "app", "generierte_stimmen", "sub">>,
      <<"/", "app", "generierte_stimmen", "ro">> }

\* The directories the process may not write to: no entry of theirs can be
\* removed.
ReadOnlyDirs == { <<"/", "app", "generierte_stimmen", "ro">> }

\* Symbolic links of the file system: one inside the output directory that
\* leads out of it, one outside that leads into it.
Symlinks ==
    [l \in { <<"/", "app", "generierte_stimmen", "lnk">>, <<"/", "app", "in">> } |->
        IF l = <<"/", "app", "in">> THEN <<"/", "app", "generierte_stimmen">>
        ELSE <<"/", "tmp">>]

RECURSIVE Walk(_, _)
\* realpath's walk: cur is resolved, rest are the parts still to follow
Walk(cur, rest) ==
    IF rest = <<>> THEN cur
    ELSE LET s == Head(rest)
             nxt == Append(cur, s)
         IN  IF s = "." THEN Walk(cur, Tail(rest))
             ELSE IF s = ".."
               THEN Walk(IF Len(cur) > 1 THEN Front(cur) ELSE cur, Tail(rest))
             ELSE IF nxt \in DOMAIN Symlinks
               THEN Walk(<<"/">>, Tail(Symlinks[nxt]) \o Tail(rest))
             ELSE Walk(nxt, Tail(rest))

\* Path.resolve(): absolute, symlinks followed, ".." applied to the resolved
\* prefix; parts that do not exist are kept as they are (strict=False)
Resolve(p) ==
    IF Len(p) > 0 /\ p[1] = "/" THEN Walk(<<"/">>, Tail(p))
    ELSE Walk(Cwd, p)

\* Path.absolute(): the working directory prepended, nothing followed
Absolute(p) == IF Len(p) > 0 /\ p[1] = "/" THEN p ELSE Cwd \o p

\* The files the file system holds when the process starts: each resolved
\* path with its modification time (in ticks) and its writer.
InitialFiles ==
    { <<"/", "app", "secret.txt">>,
      <<"/", "tmp", "victim.wav">>,
      <<"/", "app", "generierte_stimmen", "old.wav">>,
      <<"/", "app", "generierte_stimmen", "notes.txt">>,
      <<"/", "app", "generierte_stimmen", "sub", "deep.wav">>,
      <<"/", "app", "generierte_stimmen", "ro", "locked.wav">>,
      <<"/", "up", "a", "ref.mp3">>,
      <<"/", "up", "b", "ref.mp3">>,
      <<"/", "up", "a", "take.WAV">> }

FileRec(t, w) == [mtime |-> t, by |-> w]

\* a file system with path f written (created or overwritten) at time t by w
Write(fsys, f, t, w) ==
    [g \in DOMAIN fsys \cup {f} |-> IF g = f THEN FileRec(t, w) ELSE fsys[g]]

\* The removal that removes nothing.
RemoveNothing(fsys, f) == fsys

\* a file system with path f removed
Remove(fsys, f) == [g \in DOMAIN fsys \ {f} |-> fsys[g]]

Exists(fsys, p) == Resolve(p) \in DOMAIN fsys

\* --------------------------------------------------------------- listing

\* The glob with the pattern "*": every file directly in the directory.
GlobAll(fsys) ==
    {Join(output_dir, <<Last(f)>>) :
        f \in {g \in DOMAIN fsys : Front(g) = Resolve(output_dir)}}

\* output_dir.glob("*.wav"): the entries directly in the output directory
\* whose name matches the pattern, each as output_dir / name
GlobWav(fsys) ==
    {Join(output_dir, <<Last(f)>>) :
        f \in {g \in DOMAIN fsys :
                 /\ Front(g) = Resolve(output_dir)
                 /\ EndsWith(Last(g), ".wav")}}

RECURSIVE SortedByMtime(_, _)
\* files.sort(key=st_mtime, reverse=True): list.sort is stable and the
\* directory is enumerated in no particular order, so files of one
\* modification time come out in any order
SortedByMtime(fsys, files) ==
    IF files = {} THEN {<<>>}
    ELSE LET newest == {f \in files : \A g \in files :
                          fsys[Resolve(f)].mtime >= fsys[Resolve(g)].mtime}
         IN  UNION {{<<f>> \o s : s \in SortedByMtime(fsys, files \ {f})} :
                      f \in newest}

\* The values get_generated_files can return on file system fsys: the
\* choices (f.name, str(f)), newest first.  The output directory is one of
\* Dirs, so the glob raises no FileNotFoundError.
get_generated_files(fsys) ==
    {[i \in DOMAIN s |-> [name |-> Name(s[i]), value |-> s[i]]] :
        s \in SortedByMtime(fsys, GlobWav(fsys))}

\* ------------------------------------------------------------ convert_audio

ConvertTimeout == 30

\* converted_path of convert_audio
ConvertedPath(input_path) ==
    Join(TempDir, <<Stem(input_path) \o "_converted.wav">>)

\* command of convert_audio
ConvertCommand(input_path) ==
    << "ffmpeg", "-i", PathStr(input_path), "-ar", "22050", "-ac", "1",
       PathStr(ConvertedPath(input_path)), "-y" >>

\* What a subprocess.run(..., check=True, timeout=...) can end in: exit 0,
\* a non-zero exit (CalledProcessError), the timeout (TimeoutExpired), no
\* such executable (FileNotFoundError) or any other exception; wrote says
\* whether the process left a file at its destination.
ProcResult(k, rc, out, err, w) ==
    [kind |-> k, returncode |-> rc, stdout |-> out, stderr |-> err, wrote |-> w]

NoResult == ProcResult("none", 0, "", "", FALSE)

FfmpegResults ==
    { ProcResult("ok", 0, "", "", TRUE),
      ProcResult("exit", 1, "", "Invalid data found when processing input", FALSE),
      ProcResult("timeout", 0, "", "", TRUE),
      ProcResult("missing", 0, "", "", FALSE) }

\* The messages without what ffmpeg reported.
ConvertErrorNoDetail(res, process_name) == "FEHLER"

\* The exception convert_audio raises for a result of ffmpeg, as str(e)
ConvertError(res, process_name) ==
    CASE res.kind = "missing" ->
           "FEHLER: 'ffmpeg' wurde nicht gefunden. Bitte stellen Sie sicher, dass es installiert ist."
      [] res.kind = "timeout" ->
           "FEHLER: '" \o process_name \o "' hat das Zeitlimit ueberschritten."
      [] res.kind = "exit" ->
           "FEHLER bei der Audiokonvertierung (ffmpeg):\nExit-Code: "
             \o ToString(res.returncode) \o "\nFehler: " \o res.stderr
      [] OTHER -> "unexpected"

\* ------------------------------------------------------------- generate_tts

LANG_MAP ==
    [n \in { "Deutsch", "Englisch", "Spanisch", "Franzoesisch", "Italienisch",
             "Portugiesisch", "Polnisch", "Tuerkisch", "Russisch",
             "Niederlaendisch", "Tschechisch", "Arabisch", "Chinesisch",
             "Japanisch", "Ungarisch", "Koreanisch" } |->
        CASE n = "Deutsch" -> "de" [] n = "Englisch" -> "en"
          [] n = "Spanisch" -> "es" [] n = "Franzoesisch" -> "fr"
          [] n = "Italienisch" -> "it" [] n = "Portugiesisch" -> "pt"
          [] n = "Polnisch" -> "pl" [] n = "Tuerkisch" -> "tr"
          [] n = "Russisch" -> "ru" [] n = "Niederlaendisch" -> "nl"
          [] n = "Tschechisch" -> "cs" [] n = "Arabisch" -> "ar"
          [] n = "Chinesisch" -> "zh-cn" [] n = "Japanisch" -> "ja"
          [] n = "Ungarisch" -> "hu" [] n = "Koreanisch" -> "ko"]

\* The lookup with another default.
LangIdxDefaultEnglish(language) ==
    IF language \in DOMAIN LANG_MAP THEN LANG_MAP[language] ELSE "en"

\* LANG_MAP.get(language, "de")
LangIdx(language) ==
    IF language \in DOMAIN LANG_MAP THEN LANG_MAP[language] ELSE "de"

TtsTimeout == 300

Pad2(n) == IF n < 10 THEN "0" \o ToString(n) ELSE ToString(n)

\* time.strftime("%Y%m%d-%H%M%S") at tick now of the process's first day:
\* the wall clock cut to whole seconds
Strftime(now) ==
    LET sec == now \div TicksPerSecond
    IN  "19700101-" \o Pad2((sec \div 3600) % 24) \o Pad2((sec \div 60) % 60)
          \o Pad2(sec % 60)

\* output_filename of generate_tts
OutputFilename(now) == "output_" \o Strftime(now) \o ".wav"

\* The file name alone, not joined to output_dir.
OutputPathInCwd(now) == <<OutputFilename(now)>>

\* output_path = output_dir / output_filename
OutputPath(now) == Join(output_dir, <<OutputFilename(now)>>)

\* command of generate_tts
TtsCommand(text, speaker_path, lang_idx, output_path) ==
    << "tts", "--model_name", "tts_models/multilingual/multi-dataset/xtts_v2",
       "--text", text, "--speaker_wav", PathStr(speaker_path),
       "--language_idx", lang_idx, "--out_path", PathStr(output_path) >>

TtsResults ==
    { ProcResult("ok", 0, "TTS success", "", TRUE),
      ProcResult("ok", 0, "TTS success", "", FALSE),
      ProcResult("exit", 1, "Model file not found.", "model not found", FALSE),
      ProcResult("timeout", 0, "", "", FALSE),
      ProcResult("missing", 0, "", "", FALSE),
      ProcResult("other", 0, "", "", FALSE) }

\* str(list) of a list of strings that hold no quote
ListRepr(l) == "[" \o JoinWith([i \in DOMAIN l |-> "'" \o l[i] \o "'"], ", ") \o "]"

\* str(e) of the exception subprocess.run raises for a result of tts other
\* than a non-zero exit
RunError(res, command, timeout) ==
    CASE res.kind = "timeout" ->
           "Command '" \o ListRepr(command) \o "' timed out after "
             \o ToString(timeout) \o " seconds"
      [] res.kind = "missing" -> "[Errno 2] No such file or directory: 'tts'"
      [] OTHER -> "[Errno 13] Permission denied: 'tts'"

\* The test without the strip.
TextIsEmptyNoStrip(text) == text = ""

\* not text or not text.strip()
TextIsEmpty(text) == text = "" \/ Strip(text) = ""

\* The test left out.
SpeakerMissingUnchecked(speaker_file) == FALSE

\* speaker_file is None
SpeakerMissing(speaker_file) == speaker_file = None

\* The test on the path as written, not lower-cased.
NeedsConversionCaseSensitive(speaker_path) == ~EndsWith(PathStr(speaker_path), ".wav")

\* not speaker_path.lower().endswith(".wav")
NeedsConversion(speaker_path) == ~EndsWith(Lower(PathStr(speaker_path)), ".wav")

\* ------------------------------------------------------------------- state

\* The calls of generate_tts that can be in progress at once (the hosting
\* server runs each call on a thread of its own).
Requests == {"r1", "r2"}

Texts == {"", " \t", "Hallo Welt"}

\* A language of LANG_MAP whose code is not the default, and one the table lacks.
Languages == {"Japanisch", "Elbisch"}

SpeakerFiles ==
    { None, <<"/", "up", "a", "ref.mp3">>, <<"/", "up", "b", "ref.mp3">>,
      <<"/", "up", "a", "take.WAV">> }

VARIABLES
    fs,       \* the regular files: resolved path -> [mtime, by]
    clock,    \* the wall clock, in ticks
    req,      \* per call of generate_tts: its locals, position and result
    delRet,   \* the last call of delete_file: its argument, result and effect
    scan      \* a call of get_generated_files on its own: position and result

vars == <<fs, clock, req, delRet, scan>>

\* A call's record before the call: its locals (temp_files_to_clean,
\* speaker_path, output_path, status_message, audio_output), the returned
\* choices (files), the commands it handed to subprocess.run (calls), the
\* tick its output file was named at, and how its two subprocesses ended.
IdleRequest ==
    [ pc |-> "idle", text |-> "", language |-> "", speaker_file |-> None,
      speaker_path |-> None, temp_files_to_clean |-> <<>>,
      output_path |-> None, audio_output |-> None, files |-> <<>>,
      status_message |-> <<>>, calls |-> <<>>, named_at |-> 0,
      conv_result |-> NoResult, tts_result |-> NoResult ]

\* A call of get_generated_files before it starts: files is the list the
\* glob built, kept is what of it no deletion has removed since, choices the
\* returned value, missed whether a stat found its file gone.
IdleScan ==
    [ pc |-> "idle", files |-> {}, kept |-> {}, choices |-> <<>>, missed |-> FALSE ]

Init ==
    /\ fs = [f \in InitialFiles |-> FileRec(0, "env")]
    /\ clock = 0
    /\ req = [r \in Requests |-> IdleRequest]
    /\ delRet = [ path |-> None, choices |-> <<>>, audio |-> None,
                  status |-> "", removed |-> {} ]
    /\ scan = IdleScan

\* ------------------------------------------------------------- log lines

\* what the try block appends once subprocess.run has returned
SuccessLines(res, output_filename) ==
    << "TTS-Prozess erfolgreich abgeschlossen.",
       "stdout: " \o res.stdout,
       "stderr: " \o res.stderr,
       "Sprache erfolgreich generiert: " \o output_filename >>

\* The clause without the captured streams.
CalledProcessErrorLinesNoStreams(res) ==
    << "Fehler bei der TTS-Generierung:",
       "Exit-Code: " \o ToString(res.returncode) >>

\* what the clause "except subprocess.CalledProcessError as e" appends
CalledProcessErrorLines(res) ==
    << "Fehler bei der TTS-Generierung:",
       "Exit-Code: " \o ToString(res.returncode),
       "stdout: " \o res.stdout,
       "stderr: " \o res.stderr >>

\* what the clause "except Exception as e" appends, msg being str(e)
UnexpectedErrorLine(msg) == "Ein unerwarteter Fehler ist aufgetreten: " \o msg

\* ----------------------------------------------------------------- cleanup

RECURSIVE CleanTempsUncaught(_, _, _)
\* The loop without its try statement: the OSError of os.remove leaves it.
CleanTempsUncaught(fsys, temps, status) ==
    IF temps = <<>> THEN [fs |-> fsys, status |-> status, raised |-> FALSE]
    ELSE LET t == Head(temps)
         IN  IF Exists(fsys, t)
             THEN CleanTempsUncaught(Remove(fsys, Resolve(t)), Tail(temps),
                    Append(status, "Temporaere Datei geloescht: " \o PathStr(t)))
             ELSE [fs |-> fsys, status |-> status, raised |-> TRUE]

\* os.remove(temp_file) for each of temp_files_to_clean, with the line each
\* appends to the log: the file is removed, or os.remove raises OSError,
\* which the loop catches; raised says whether an exception left the loop
RECURSIVE CleanTemps(_, _, _)
CleanTemps(fsys, temps, status) ==
    IF temps = <<>> THEN [fs |-> fsys, status |-> status, raised |-> FALSE]
    ELSE LET t == Head(temps)
         IN  IF Exists(fsys, t)
             THEN CleanTemps(Remove(fsys, Resolve(t)), Tail(temps),
                    Append(status, "Temporaere Datei geloescht: " \o PathStr(t)))
             ELSE CleanTemps(fsys, Tail(temps),
                    Append(status, "Fehler beim Loeschen der temporaeren Datei "
                      \o PathStr(t) \o ": [Errno 2] No such file or directory: '"
                      \o PathStr(t) \o "'"))

\* The clean-up at the end of the try block instead: skipped when it raised.
RunsCleanupOnSuccessOnly(raised) == ~raised

\* The finally clause runs whether or not the try block raised.
RunsCleanup(raised) == TRUE

\* The end of generate_tts: the finally clause, then the returned triple
\* (audio_output, get_generated_files(for_update=True), status_message).
\* q is the call's record so far and fsys the file system the try block left.
Finish(r, q, fsys, audio, status, raised) ==
    LET c == IF RunsCleanup(raised)
             THEN CleanTemps(fsys, q.temp_files_to_clean, status)
             ELSE [fs |-> fsys, status |-> status, raised |-> FALSE]
    IN  IF c.raised
        THEN /\ fs' = c.fs
             /\ req' = [req EXCEPT ![r] =
                          [q EXCEPT !.pc = "raised", !.status_message = c.status]]
        ELSE \E listing \in get_generated_files(c.fs) :
               /\ fs' = c.fs
               /\ req' = [req EXCEPT ![r] =
                            [q EXCEPT !.pc = "done", !.audio_output = audio,
                                      !.files = listing, !.status_message = c.status]]

\* The class of the exception convert_audio raises for a failed run of ffmpeg
ConvertException(res) ==
    CASE res.kind = "missing" -> "FileNotFoundError"
      [] res.kind = "timeout" -> "TimeoutError"
      [] OTHER -> "RuntimeError"

\* The class of the exception subprocess.run raises for a failed run of tts
TtsException(res) ==
    CASE res.kind = "exit" -> "CalledProcessError"
      [] res.kind = "timeout" -> "TimeoutExpired"
      [] res.kind = "missing" -> "FileNotFoundError"
      [] OTHER -> "PermissionError"

\* The try statement without its second clause.
ExceptClauseFirstOnly(exc) ==
    IF exc = "CalledProcessError" THEN "CalledProcessError" ELSE "none"

\* The except clause of generate_tts that catches an exception of class exc
\* raised in its try block: the first that matches, "none" when none does
ExceptClause(exc) ==
    IF exc = "CalledProcessError" THEN "CalledProcessError" ELSE "Exception"

\* An exception no clause catches leaves generate_tts after the finally
\* clause: the call ends without a returned value.
Propagate(r, q, fsys, status) ==
    LET c == CleanTemps(fsys, q.temp_files_to_clean, status)
    IN  /\ fs' = c.fs
        /\ req' = [req EXCEPT ![r] =
                     [q EXCEPT !.pc = "raised", !.status_message = c.status]]

\* The launch with the uploaded file as the speaker reference, whatever
\* the conversion returned.
LaunchTtsWithUpload(q, status, now) ==
    LET out == OutputPath(now)
        cmd == TtsCommand(q.text, q.speaker_file, LangIdx(q.language), out)
    IN  [q EXCEPT !.pc = "synth", !.output_path = out, !.named_at = now,
                  !.calls = Append(q.calls, cmd),
                  !.status_message =
                     Append(status, "Fuehre TTS-Befehl aus: " \o JoinWith(cmd, " "))]

\* Step 3 of generate_tts up to the launch of the engine: the record q with
\* the output path named after the current time and the command launched.
LaunchTts(q, status, now) ==
    LET out == OutputPath(now)
        cmd == TtsCommand(q.text, q.speaker_path, LangIdx(q.language), out)
    IN  [q EXCEPT !.pc = "synth", !.output_path = out, !.named_at = now,
                  !.calls = Append(q.calls, cmd),
                  !.status_message =
                     Append(status, "Fuehre TTS-Befehl aus: " \o JoinWith(cmd, " "))]

\* ----------------------------------------------------------------- actions

\* generate_tts(text, language, speaker_file) from its first line to its
\* first subprocess launch, or to its return when an input is rejected.
Begin(r, text, language, speaker_file) ==
    /\ req[r].pc \in {"idle", "done"}
    /\ UNCHANGED <<clock, delRet, scan>>
    /\ LET q0 == [IdleRequest EXCEPT !.text = text, !.language = language,
                                     !.speaker_file = speaker_file]
           s0 == <<"Starte TTS-Generierung...">>
       IN  IF TextIsEmpty(text)
           THEN Finish(r, q0, fs, None,
                       Append(s0, "Der Eingabetext ist leer."), FALSE)
           ELSE IF SpeakerMissing(speaker_file)
           THEN Finish(r, q0, fs, None,
                       Append(s0, "Es wurde keine Referenz-Audiodatei hochgeladen."),
                       FALSE)
           ELSE LET q1 == [q0 EXCEPT !.speaker_path = speaker_file]
                    s1 == Append(s0, "Referenzdatei: " \o PathStr(speaker_file))
                IN  /\ fs' = fs
                    /\ IF NeedsConversion(speaker_file)
                       THEN req' = [req EXCEPT ![r] =
                              [q1 EXCEPT !.pc = "converting",
                                 !.calls = <<ConvertCommand(speaker_file)>>,
                                 !.status_message =
                                    Append(s1, "Konvertiere Audio in das WAV-Format...")]]
                       ELSE req' = [req EXCEPT ![r] = LaunchTts(q1, s1, clock)]

\* ffmpeg ends with result res: convert_audio returns or raises, and
\* generate_tts goes on to launch the engine or to its except clause.
ConvertDone(r, res) ==
    /\ req[r].pc = "converting"
    /\ UNCHANGED <<clock, delRet, scan>>
    /\ LET q == [req[r] EXCEPT !.conv_result = res]
           conv == ConvertedPath(q.speaker_path)
           fs1 == IF res.wrote THEN Write(fs, Resolve(conv), clock, r) ELSE fs
       IN  IF res.kind = "ok"
           THEN /\ fs' = fs1
                /\ req' = [req EXCEPT ![r] =
                     LaunchTts([q EXCEPT !.temp_files_to_clean = Append(@, conv),
                                         !.speaker_path = conv],
                               Append(q.status_message,
                                      "Konvertierung abgeschlossen: " \o PathStr(conv)),
                               clock)]
           ELSE IF ExceptClause(ConvertException(res)) = "Exception"
           THEN Finish(r, q, fs1, None,
                       Append(q.status_message,
                              UnexpectedErrorLine(
                                ConvertError(res, "Audiokonvertierung (ffmpeg)"))),
                       TRUE)
           ELSE Propagate(r, q, fs1, q.status_message)

\* tts ends with result res: the rest of the try block or the except clause
\* that catches what subprocess.run raised, then the end of generate_tts.
SynthDone(r, res) ==
    /\ req[r].pc = "synth"
    /\ UNCHANGED <<clock, delRet, scan>>
    /\ LET q == [req[r] EXCEPT !.tts_result = res]
           s == q.status_message
           fs1 == IF res.wrote THEN Write(fs, Resolve(q.output_path), clock, r) ELSE fs
       IN  CASE res.kind = "ok" ->
                  Finish(r, q, fs1, q.output_path,
                         s \o SuccessLines(res, Name(q.output_path)), FALSE)
             [] res.kind # "ok" /\ ExceptClause(TtsException(res)) = "CalledProcessError" ->
                  Finish(r, q, fs1, None, s \o CalledProcessErrorLines(res), TRUE)
             [] res.kind # "ok" /\ ExceptClause(TtsException(res)) = "Exception" ->
                  Finish(r, q, fs1, None,
                         Append(s, UnexpectedErrorLine(
                                      RunError(res, Last(q.calls), TtsTimeout))),
                         TRUE)
             [] OTHER -> Propagate(r, q, fs1, s)

\* The wall clock advances.
Tick ==
    /\ clock < MaxClock
    /\ clock' = clock + 1
    /\ UNCHANGED <<fs, req, delRet, scan>>

\* -------------------------------------------------------------- delete_file

\* The containment test on the path as written: made absolute, with neither
\* ".." nor symbolic links resolved.
DeletionPermittedLexical(file_to_delete_path) ==
    Absolute(output_dir) \in Parents(Absolute(file_to_delete_path))

\* The containment test that also admits the output directory itself.
DeletionPermittedOrSelf(file_to_delete_path) ==
    Resolve(output_dir) \in
        Parents(Resolve(file_to_delete_path)) \cup {Resolve(file_to_delete_path)}

\* output_dir.resolve() in safe_path.parents, for safe_path the resolved
\* argument: the test that lets delete_file go on to unlink
DeletionPermitted(file_to_delete_path) ==
    Resolve(output_dir) \in Parents(Resolve(file_to_delete_path))

\* unlink with missing_ok=True: an absent path is no error.
UnlinkErrorMissingOk(fsys, safe_path) ==
    IF safe_path \in DOMAIN fsys /\ Front(safe_path) \in ReadOnlyDirs
      THEN "[Errno 13] Permission denied: '" \o PathStr(safe_path) \o "'"
    ELSE IF safe_path \in Dirs
      THEN "[Errno 21] Is a directory: '" \o PathStr(safe_path) \o "'"
    ELSE IF \E a \in Parents(safe_path) : a \in DOMAIN fsys
      THEN "[Errno 20] Not a directory: '" \o PathStr(safe_path) \o "'"
    ELSE ""

\* str(e) of the exception safe_path.unlink(missing_ok=False) raises on
\* file system fsys, "" when it removes the file
UnlinkError(fsys, safe_path) ==
    IF safe_path \in DOMAIN fsys /\ Front(safe_path) \in ReadOnlyDirs
      THEN "[Errno 13] Permission denied: '" \o PathStr(safe_path) \o "'"
    ELSE IF safe_path \in DOMAIN fsys THEN ""
    ELSE IF safe_path \in Dirs
      THEN "[Errno 21] Is a directory: '" \o PathStr(safe_path) \o "'"
    ELSE IF \E a \in Parents(safe_path) : a \in DOMAIN fsys
      THEN "[Errno 20] Not a directory: '" \o PathStr(safe_path) \o "'"
    ELSE "[Errno 2] No such file or directory: '" \o PathStr(safe_path) \o "'"

\* The first clause catching every OSError.
DeleteExceptClauseAnyOSError(err) == "FileNotFoundError"

\* The except clause of delete_file that catches what unlink raised, err
\* being its str(e): FileNotFoundError is the error of errno 2 (ENOENT)
DeleteExceptClause(err) ==
    IF StartsWith(err, "[Errno 2] ") THEN "FileNotFoundError" ELSE "Exception"

\* The file system delete_file leaves and the status message it returns.
DeleteOutcome(fsys, file_to_delete_path) ==
    LET safe_path == Resolve(file_to_delete_path)
        err == UnlinkError(fsys, safe_path)
    IN  IF file_to_delete_path = None
        THEN [fs |-> fsys, status |-> "Keine Datei zum Loeschen ausgewaehlt."]
        ELSE IF ~DeletionPermitted(file_to_delete_path)
        THEN [fs |-> fsys,
              status |-> "Fehler: Sicherheitswarnung: Loeschen ausserhalb des erlaubten Verzeichnisses '"
                           \o PathStr(output_dir) \o "' verweigert."]
        ELSE IF err = ""
        THEN [fs |-> Remove(fsys, safe_path),
              status |-> "Datei '" \o Name(safe_path) \o "' erfolgreich geloescht."]
        ELSE IF DeleteExceptClause(err) = "FileNotFoundError"
        THEN [fs |-> fsys, status |-> "Fehler: " \o err]
        ELSE [fs |-> fsys,
              status |-> "Ein unerwarteter Fehler ist beim Loeschen aufgetreten: " \o err]

\* The paths a caller hands to delete_file: nothing, entries of the output
\* directory (relative, absolute, nested, absent, through a link), the
\* directory itself and one below it, a file that cannot be removed, a path
\* below a file, and paths that lead out of it.
DeletePaths ==
    { None,
      <<"generierte_stimmen", "old.wav">>,
      <<"generierte_stimmen", "ghost.wav">>,
      <<"/", "app", "generierte_stimmen", "sub", "deep.wav">>,
      <<"in", "old.wav">>,
      <<"generierte_stimmen">>,
      <<"generierte_stimmen", "sub">>,
      <<"generierte_stimmen", "ro", "locked.wav">>,
      <<"generierte_stimmen", "old.wav", "x">>,
      <<"generierte_stimmen", "..", "secret.txt">>,
      <<"generierte_stimmen", "lnk", "victim.wav">>,
      <<"/", "tmp", "ref_converted.wav">> }

\* delete_file(file_to_delete_path), whole: the check, the unlink and the
\* returned triple (refreshed choices, None, status message).
Delete(file_to_delete_path) ==
    /\ LET o == DeleteOutcome(fs, file_to_delete_path)
       IN  /\ fs' = o.fs
           /\ \E listing \in get_generated_files(o.fs) :
                delRet' = [ path |-> file_to_delete_path, choices |-> listing,
                            audio |-> None, status |-> o.status,
                            removed |-> DOMAIN fs \ DOMAIN o.fs ]
    /\ scan' = IF scan.pc = "globbed"
               THEN [scan EXCEPT !.kept = {f \in @ : Exists(fs', f)}]
               ELSE scan
    /\ UNCHANGED <<clock, req>>

\* ------------------------------------------------------ get_generated_files

\* get_generated_files up to the end of its first statement: the glob has
\* listed the directory.
ListBegin ==
    /\ scan.pc \in {"idle", "returned"}
    /\ scan' = [ pc |-> "globbed", files |-> GlobWav(fs), kept |-> GlobWav(fs),
                 choices |-> <<>>, missed |-> FALSE ]
    /\ UNCHANGED <<fs, clock, req, delRet>>

\* The rest of get_generated_files: the sort reads st_mtime of every listed
\* file; a file that is gone makes stat raise FileNotFoundError, and the
\* except clause returns no choices at all.
ListEnd ==
    /\ scan.pc = "globbed"
    /\ IF \E f \in scan.files : ~Exists(fs, f)
       THEN scan' = [scan EXCEPT !.pc = "returned", !.choices = <<>>, !.missed = TRUE]
       ELSE \E s \in SortedByMtime(fs, scan.files) :
              scan' = [scan EXCEPT !.pc = "returned",
                         !.choices = [i \in DOMAIN s |->
                                        [name |-> Name(s[i]), value |-> s[i]]]]
    /\ UNCHANGED <<fs, clock, req, delRet>>

\* ----------------------------------------------------------- specification

\* Concurrent calls of generate_tts, one on each thread, over every input and
\* every way the two subprocesses can end.
Next ==
    \/ \E r \in Requests, text \in Texts, language \in Languages,
          speaker_file \in SpeakerFiles :
            req[r].pc = "idle" /\ Begin(r, text, language, speaker_file)
    \/ \E r \in Requests, res \in FfmpegResults : ConvertDone(r, res)
    \/ \E r \in Requests, res \in TtsResults : SynthDone(r, res)
    \/ Tick

Spec == Init /\ [][Next]_vars

\* The registry: calls of delete_file, on the paths of DeletePaths and on the
\* values of the choices the last call returned, between and during any
\* number of calls of generate_tts, one after the other, whose subprocesses
\* succeed.
RegistryNext ==
    \/ \E r \in {"r1"}, speaker_file \in {<<"/", "up", "a", "ref.mp3">>, <<"/", "up", "a", "take.WAV">>} :
          Begin(r, "Hallo Welt", "Deutsch", speaker_file)
    \/ \E r \in {"r1"}, res \in {x \in FfmpegResults : x.kind = "ok"} :
          ConvertDone(r, res)
    \/ \E r \in {"r1"}, res \in {x \in TtsResults : x.kind = "ok" /\ x.wrote} : SynthDone(r, res)
    \/ \E p \in DeletePaths \cup {delRet.choices[i].value : i \in DOMAIN delRet.choices} :
          Delete(p)
    \/ Tick

SpecRegistry == Init /\ [][RegistryNext]_vars

\* Reference paths at which no file is: an upload that has been removed
\* since, or a path typed by a caller of the API.
AbsentReferences ==
    { <<"/", "up", "a", "gone.mp3">>, <<"/", "up", "a", "gone.wav">> }

\* ffmpeg cannot convert, nor write anything from, an input that is not there
FfmpegCanEnd(fsys, input_path, res) ==
    (res.kind = "ok" \/ res.wrote) => Exists(fsys, input_path)

\* tts cannot exit with code 0 without its speaker reference
TtsCanEnd(fsys, speaker_path, res) ==
    res.kind = "ok" => Exists(fsys, speaker_path)

\* One call of generate_tts, over every input, the reference paths
\* at which no file is among them, and every way the two subprocesses can
\* end on the files there are.
ReferenceNext ==
    \/ \E r \in {"r1"}, text \in Texts, language \in Languages,
          speaker_file \in SpeakerFiles \cup AbsentReferences :
            req[r].pc = "idle" /\ Begin(r, text, language, speaker_file)
    \/ \E r \in {"r1"}, res \in FfmpegResults :
          FfmpegCanEnd(fs, req[r].speaker_file, res) /\ ConvertDone(r, res)
    \/ \E r \in {"r1"}, res \in TtsResults :
          TtsCanEnd(fs, req[r].speaker_path, res) /\ SynthDone(r, res)
    \/ Tick

SpecReference == Init /\ [][ReferenceNext]_vars

\* The same call where no subprocess runs for ever: subprocess.run returns
\* when the process exits or, at the latest, when its timeout (30 s for
\* ffmpeg, 300 s for tts) ends it.
SpecReferenceFair ==
    /\ SpecReference
    /\ WF_vars(\E res \in FfmpegResults :
                  FfmpegCanEnd(fs, req["r1"].speaker_file, res) /\ ConvertDone("r1", res))
    /\ WF_vars(\E res \in TtsResults :
                  TtsCanEnd(fs, req["r1"].speaker_path, res) /\ SynthDone("r1", res))

\* A listing on a thread of its own, while files of the output directory are
\* deleted through the choices on offer and new ones are generated.
ListingNext ==
    \/ \E r \in {"r1"} : Begin(r, "Hallo Welt", "Deutsch", <<"/", "up", "a", "take.WAV">>)
    \/ \E r \in {"r1"}, res \in {x \in TtsResults : x.kind = "ok" /\ x.wrote} :
          SynthDone(r, res)
    \/ \E p \in GlobWav(fs) : Delete(p)
    \/ ListBegin
    \/ ListEnd
    \/ Tick

SpecListing == Init /\ [][ListingNext]_vars

\* ------------------------------------------------------------------ claims

\* Where the output directory is, and what lies in it.
Root == Resolve(output_dir)

IsBelow(dir, loc) == Len(loc) > Len(dir) /\ SubSeq(loc, 1, Len(dir)) = dir

\* the path leads to a place strictly inside the output directory
StrictlyInside(p) == IsBelow(Root, Resolve(p))

\* the path leads to a place that neither is the output directory nor lies in it
ResolvesOutside(p) == Resolve(p) # Root /\ ~IsBelow(Root, Resolve(p))

\* the status message reports the security violation
SecurityViolation(status) == StartsWith(status, "Fehler: Sicherheitswarnung: ")

\* C1: whenever delete_file was called with a path that resolves outside the
\* output directory, whatever calls of generate_tts and delete_file came
\* before, the call removed no file and its status message reports the
\* security violation.
C1_OutsideDeletionRefused ==
    (delRet.path # None /\ ResolvesOutside(delRet.path)) =>
        /\ delRet.removed = {}
        /\ SecurityViolation(delRet.status)

\* C1 witness: after a call of generate_tts has returned, delete_file was
\* called with a "../"-crafted path to a file outside the output directory,
\* which exists, and refused.
C1_Witness ==
    /\ delRet.path = <<"generierte_stimmen", "..", "secret.txt">>
    /\ ResolvesOutside(delRet.path)
    /\ Resolve(delRet.path) \in DOMAIN fs
    /\ SecurityViolation(delRet.status)
    /\ \E r \in Requests : req[r].pc = "done"

\* The paths a deletion can be asked for in the current state: those of
\* DeletePaths, every file there is (by its absolute path, and by its path
\* relative to the working directory when it lies below it), and the same
\* file names where no file is.
CandidatePaths ==
    (DeletePaths \ {None})
      \cup DOMAIN fs
      \cup {SubSeq(f, Len(Cwd) + 1, Len(f)) : f \in {g \in DOMAIN fs : IsBelow(Cwd, g)}}
      \cup {Join(d, <<"ghost.wav">>) : d \in Dirs}

\* C2: the containment check of delete_file is false for every path that
\* resolves outside the output directory ("../"-crafted, through a symbolic
\* link, or plainly elsewhere) and true for every path that resolves strictly
\* inside it, existing or not, at any depth; and the last call of delete_file
\* was refused, or not, accordingly.
C2_ContainmentCheckCorrect ==
    /\ \A p \in CandidatePaths :
         /\ ResolvesOutside(p) => ~DeletionPermitted(p)
         /\ StrictlyInside(p) => DeletionPermitted(p)
    /\ (delRet.path # None /\ StrictlyInside(delRet.path)) =>
         ~SecurityViolation(delRet.status)

\* C2 witness: delete_file was called for a nested file of the output
\* directory that is no longer there, and the check let the call through; a
\* path through the link out of the directory is among the candidates.
C2_Witness ==
    /\ delRet.path = <<"/", "app", "generierte_stimmen", "sub", "deep.wav">>
    /\ Resolve(delRet.path) \notin DOMAIN fs
    /\ delRet.removed = {}
    /\ ~SecurityViolation(delRet.status)
    /\ \E p \in CandidatePaths : ResolvesOutside(p) /\ IsBelow(Absolute(output_dir), Absolute(p))

\* some line of the log begins with pre
HasLine(status, pre) == \E i \in DOMAIN status : StartsWith(status[i], pre)

\* the text is empty or holds whitespace only
BlankText(text) == \A i \in 1..Len(text) : SubSeq(text, i, i) \in {" ", "\t", "\n"}

\* the file's suffix, lower-cased, is not ".wav"
NonWavFile(p) ==
    LET n == Name(p)
    IN  LastDot(n) = 0 \/ Lower(SubSeq(n, LastDot(n), Len(n))) # ".wav"

\* the commands of a call that ran program prog, by their position in calls
CallsOf(q, prog) == {i \in DOMAIN q.calls : q.calls[i][1] = prog}

\* the argument that follows flag in a command
ArgAfter(cmd, flag) == cmd[(CHOOSE i \in DOMAIN cmd : cmd[i] = flag) + 1]

\* the destination of an ffmpeg command: its last argument but one
FfmpegDestination(cmd) == cmd[Len(cmd) - 1]

\* C3: when a call of generate_tts that converted its reference input
\* returns, by whichever route after the conversion, it made exactly one
\* temporary file, the converted one, and no file is left at that path.
C3_TempFileRemovedOnReturn ==
    [][\A r \in Requests :
          ( /\ req[r].pc = "synth"
            /\ req'[r].pc = "done"
            /\ NonWavFile(req[r].speaker_file) ) =>
              /\ req'[r].temp_files_to_clean = <<ConvertedPath(req[r].speaker_file)>>
              /\ Cardinality(CallsOf(req'[r], "ffmpeg")) = 1
              /\ ~Exists(fs', ConvertedPath(req[r].speaker_file))]_vars

\* C3 witness: a call that converted its input has returned after the engine
\* exited non-zero, its log says the temporary file was deleted, and the file
\* is gone.
C3_Witness ==
    \E r \in Requests :
        /\ req[r].pc = "done"
        /\ NonWavFile(req[r].speaker_file)
        /\ req[r].tts_result.kind = "exit"
        /\ HasLine(req[r].status_message, "Temporaere Datei geloescht")
        /\ ~Exists(fs, ConvertedPath(req[r].speaker_file))

\* C4 (as claimed): two calls that both succeeded and named their output
\* files at the same instant have two different output file names.
C4_DistinctOutputNames ==
    \A r1, r2 \in Requests :
        ( /\ r1 # r2
          /\ req[r1].pc = "done" /\ req[r1].audio_output # None
          /\ req[r2].pc = "done" /\ req[r2].audio_output # None
          /\ req[r1].named_at = req[r2].named_at ) =>
            req[r1].audio_output # req[r2].audio_output

\* C5 (as claimed): two conversions in flight at the same time write to two
\* different temporary paths.
C5_DistinctTempPaths ==
    \A r1, r2 \in Requests :
        (r1 # r2 /\ req[r1].pc = "converting" /\ req[r2].pc = "converting") =>
            FfmpegDestination(req[r1].calls[1]) # FfmpegDestination(req[r2].calls[1])

\* C6: a call whose text is empty or whitespace only has returned as soon as
\* it has begun, with no output path and the empty-text message, and has
\* launched neither ffmpeg nor tts, whatever its other two arguments.
C6_BlankTextRejected ==
    \A r \in Requests :
        (req[r].pc # "idle" /\ BlankText(req[r].text)) =>
            /\ req[r].pc = "done"
            /\ req[r].audio_output = None
            /\ HasLine(req[r].status_message, "Der Eingabetext ist leer")
            /\ req[r].calls = <<>>

\* C6 witness: a call with whitespace-only text, a reference file and a
\* language of the table was rejected.
C6_Witness ==
    \E r \in Requests :
        /\ req[r].pc = "done"
        /\ req[r].text = " \t"
        /\ req[r].speaker_file # None
        /\ req[r].language \in DOMAIN LANG_MAP
        /\ HasLine(req[r].status_message, "Der Eingabetext ist leer")

\* C7: a call with text that is not blank and no reference audio has
\* returned as soon as it has begun, with no output path and the
\* missing-reference message, and has launched neither ffmpeg nor tts.
C7_MissingReferenceRejected ==
    \A r \in Requests :
        (req[r].pc # "idle" /\ ~BlankText(req[r].text) /\ req[r].speaker_file = None) =>
            /\ req[r].pc = "done"
            /\ req[r].audio_output = None
            /\ HasLine(req[r].status_message, "Es wurde keine Referenz-Audiodatei hochgeladen")
            /\ req[r].calls = <<>>

\* C7 witness: such a call was made and rejected.
C7_Witness ==
    \E r \in Requests :
        /\ req[r].pc = "done"
        /\ req[r].text = "Hallo Welt"
        /\ req[r].speaker_file = None
        /\ HasLine(req[r].status_message, "Es wurde keine Referenz-Audiodatei hochgeladen")

\* C8: a call whose engine run exited with code 0 has run the engine exactly
\* once and returns success: an output path that lies inside the output
\* directory and ends in ".wav", and the success line in its log.
C8_SuccessPathInsideOutputDir ==
    \A r \in Requests :
        (req[r].pc = "done" /\ req[r].tts_result.kind = "ok") =>
            /\ Cardinality(CallsOf(req[r], "tts")) = 1
            /\ req[r].audio_output # None
            /\ HasLine(req[r].status_message, "Sprache erfolgreich generiert")
            /\ StrictlyInside(req[r].audio_output)
            /\ EndsWith(PathStr(req[r].audio_output), ".wav")

\* C8 witness: a call with a WAV reference has returned after the engine
\* exited 0 and wrote its file.
C8_Witness ==
    \E r \in Requests :
        /\ req[r].pc = "done"
        /\ req[r].tts_result.kind = "ok"
        /\ ~NonWavFile(req[r].speaker_file)
        /\ Exists(fs, req[r].audio_output)

\* C9: a call with text that is not blank and a reference file that is not a
\* WAV file launches ffmpeg exactly once, as its first subprocess; it launches
\* tts only once ffmpeg has ended, with exit code 0; and the tts command names
\* the converted file as the speaker reference, not the uploaded one.
C9_ConversionBeforeSynthesis ==
    \A r \in Requests :
        ( /\ req[r].pc # "idle"
          /\ ~BlankText(req[r].text)
          /\ req[r].speaker_file # None
          /\ NonWavFile(req[r].speaker_file) ) =>
            /\ CallsOf(req[r], "ffmpeg") = {1}
            /\ req[r].pc = "converting" => CallsOf(req[r], "tts") = {}
            /\ \A i \in CallsOf(req[r], "tts") :
                 /\ i = 2
                 /\ req[r].conv_result.kind = "ok"
                 /\ ArgAfter(req[r].calls[i], "--speaker_wav")
                      = FfmpegDestination(req[r].calls[1])
                 /\ ArgAfter(req[r].calls[i], "--speaker_wav")
                      # PathStr(req[r].speaker_file)

\* C9 witness: a call with an MP3 reference is running the engine.
C9_Witness ==
    \E r \in Requests :
        /\ req[r].pc = "synth"
        /\ NonWavFile(req[r].speaker_file)
        /\ CallsOf(req[r], "tts") = {2}

\* C10: a call whose engine run exited non-zero returns no output path, and
\* its log holds the synthesis-error line, the exit code and the engine's
\* standard output and standard error as captured.
C10_EngineFailureReported ==
    \A r \in Requests :
        (req[r].pc = "done" /\ req[r].tts_result.kind = "exit") =>
            /\ req[r].audio_output = None
            /\ HasLine(req[r].status_message, "Fehler bei der TTS-Generierung")
            /\ HasLine(req[r].status_message,
                       "Exit-Code: " \o ToString(req[r].tts_result.returncode))
            /\ HasLine(req[r].status_message, "stdout: " \o req[r].tts_result.stdout)
            /\ HasLine(req[r].status_message, "stderr: " \o req[r].tts_result.stderr)

\* C10 witness: the engine exited with code 1 and "model not found" on its
\* standard error, and the call has returned.
C10_Witness ==
    \E r \in Requests :
        /\ req[r].pc = "done"
        /\ req[r].tts_result.kind = "exit"
        /\ req[r].tts_result.returncode = 1
        /\ req[r].tts_result.stderr = "model not found"

\* The kind of failure a returned call's log reports: the heading of the
\* except clause that wrote it.
ReportedFailure(q) ==
    IF HasLine(q.status_message, "Fehler bei der TTS-Generierung") THEN "synthesis error"
    ELSE IF HasLine(q.status_message, "Ein unerwarteter Fehler ist aufgetreten")
      THEN "unexpected error"
    ELSE "none"

\* how a run of the engine can fail
TtsFailureModes == {"missing", "exit", "timeout", "other"}

\* C11 (as claimed): two calls whose engine runs failed in two different
\* modes (executable missing, non-zero exit, timeout, other launch failure)
\* report two different kinds of failure.
C11_DistinctFailureOutcomes ==
    \A r1, r2 \in Requests :
        ( /\ req[r1].pc = "done" /\ req[r1].tts_result.kind \in TtsFailureModes
          /\ req[r2].pc = "done" /\ req[r2].tts_result.kind \in TtsFailureModes
          /\ req[r1].tts_result.kind # req[r2].tts_result.kind ) =>
            ReportedFailure(req[r1]) # ReportedFailure(req[r2])

\* something failed in a call: an input was rejected or a subprocess did not
\* end with exit code 0
AnythingFailed(q) ==
    \/ BlankText(q.text)
    \/ q.speaker_file = None
    \/ q.conv_result.kind \notin {"none", "ok"}
    \/ q.tts_result.kind \notin {"none", "ok"}

\* the log of a call names what failed in it
HasDiagnostic(q) ==
    /\ BlankText(q.text) => HasLine(q.status_message, "Der Eingabetext ist leer")
    /\ (~BlankText(q.text) /\ q.speaker_file = None) =>
          HasLine(q.status_message, "Es wurde keine Referenz-Audiodatei hochgeladen")
    /\ q.conv_result.kind \notin {"none", "ok"} =>
          HasLine(q.status_message, "Ein unerwarteter Fehler ist aufgetreten: FEHLER")
    /\ q.tts_result.kind = "exit" =>
          HasLine(q.status_message, "Fehler bei der TTS-Generierung")
    /\ q.tts_result.kind \in {"timeout", "missing", "other"} =>
          HasLine(q.status_message, "Ein unerwarteter Fehler ist aufgetreten: ")

\* C12: a call of generate_tts is before its first line, waiting for a
\* subprocess it launched, or has returned; it never ends with an exception.
\* As soon as an input is rejected or a subprocess has failed, in any of the
\* ways a subprocess can, the call has returned a triple: the choices of the
\* listing, a log, and no output path, the log naming what failed.  A call
\* in which nothing failed returns its output path.
C12_NeverPropagates ==
    \A r \in Requests :
        LET q == req[r]
        IN  /\ q.pc \in {"idle", "converting", "synth", "done"}
            /\ q.pc = "converting" => q.conv_result = NoResult
            /\ q.pc = "synth" => q.tts_result = NoResult
            /\ (q.pc # "idle" /\ AnythingFailed(q)) =>
                  /\ q.pc = "done"
                  /\ q.audio_output = None
                  /\ HasDiagnostic(q)
            /\ q.pc = "done" =>
                  /\ \A i \in DOMAIN q.files :
                        /\ q.files[i].value = Join(output_dir, <<q.files[i].name>>)
                        /\ EndsWith(q.files[i].name, ".wav")
                  /\ q.status_message # <<>>
                  /\ ~AnythingFailed(q) => q.audio_output = q.output_path

\* C12 witness: one call has returned after the engine could not be started
\* for a reason that is neither a missing executable nor a timeout, another
\* after its conversion timed out; both returned no output path.
C12_Witness ==
    \E r1, r2 \in Requests :
        /\ req[r1].pc = "done" /\ req[r1].tts_result.kind = "other"
        /\ req[r1].audio_output = None
        /\ HasLine(req[r1].status_message, "Ein unerwarteter Fehler ist aufgetreten: [Errno 13]")
        /\ req[r2].pc = "done" /\ req[r2].conv_result.kind = "timeout"
        /\ req[r2].audio_output = None

\* the modification time of a listed file
MtimeOf(fsys, choice) == fsys[Resolve(choice.value)].mtime

\* C13 (as claimed): the files of the output directory, with the modification
\* times they have, admit one listing only, whatever order the directory is
\* enumerated in, and it runs from the newest file to the oldest.
C13_ListingOrderTotal ==
    LET listings == get_generated_files(fs)
    IN  /\ \A l \in listings : \A i, j \in DOMAIN l :
              i < j => MtimeOf(fs, l[i]) >= MtimeOf(fs, l[j])
        /\ Cardinality(listings) = 1

\* A step of delete_file: the one operation that leaves every call of
\* generate_tts and the clock as they are.  The primed delRet is what the
\* call was given and what it returned.
DeleteStep == req' = req /\ clock' = clock

\* the outcomes of delete_file, by its status message
NotFoundOutcome(status) ==
    StartsWith(status, "Fehler: [Errno 2] No such file or directory")

UnexpectedOutcome(status) ==
    StartsWith(status, "Ein unerwarteter Fehler ist beim Loeschen aufgetreten: ")

SuccessOutcome(status) == EndsWith(status, "erfolgreich geloescht.")

\* nothing is at the place the path leads to: no file, no directory, and no
\* file where the path needs a directory
NamesNothing(fsys, p) ==
    LET t == Resolve(p)
    IN  /\ t \notin DOMAIN fsys
        /\ t \notin Dirs
        /\ \A a \in Parents(t) : a \notin DOMAIN fsys

Removable(fsys, p) ==
    Resolve(p) \in DOMAIN fsys /\ Front(Resolve(p)) \notin ReadOnlyDirs

\* C15: a call of delete_file with a path that resolves strictly inside the
\* output directory, to a file that is there and can be removed, removes that
\* file and no other, reports success, and returns a listing of the files
\* left, in which the removed one is not.
C15_ExistingFileRemoved ==
    [][( /\ DeleteStep
         /\ delRet'.path # None
         /\ StrictlyInside(delRet'.path)
         /\ Removable(fs, delRet'.path) ) =>
            /\ DOMAIN fs' = DOMAIN fs \ {Resolve(delRet'.path)}
            /\ \A g \in DOMAIN fs' : fs'[g] = fs[g]
            /\ delRet'.removed = {Resolve(delRet'.path)}
            /\ SuccessOutcome(delRet'.status)
            /\ delRet'.choices \in get_generated_files(fs')
            /\ \A i \in DOMAIN delRet'.choices :
                  Resolve(delRet'.choices[i].value) # Resolve(delRet'.path)]_vars

\* C15 witness: delete_file was called with the value of a choice of the
\* listing, a file generate_tts had written, and removed it; old.wav, which
\* lay next to it, is still there and is what the returned listing holds.
C15_Witness ==
    /\ delRet.path # None
    /\ StartsWith(Name(delRet.path), "output_")
    /\ delRet.removed = {Resolve(delRet.path)}
    /\ SuccessOutcome(delRet.status)
    /\ ~Exists(fs, delRet.path)
    /\ Exists(fs, <<"generierte_stimmen", "old.wav">>)
    /\ Len(delRet.choices) = 1 /\ delRet.choices[1].name = "old.wav"

\* C16: a call of delete_file with a path that resolves strictly inside the
\* output directory, whose removal fails though something is at the place
\* (no permission, a directory, a file where the path needs a directory),
\* returns the unexpected-error outcome with the text of the failure, which
\* is none of success, not found and security violation, and removes nothing.
C16_RemovalFailureReported ==
    [][( /\ DeleteStep
         /\ delRet'.path # None
         /\ StrictlyInside(delRet'.path)
         /\ ~NamesNothing(fs, delRet'.path)
         /\ ~Removable(fs, delRet'.path) ) =>
            /\ UnexpectedOutcome(delRet'.status)
            /\ EndsWith(delRet'.status, UnlinkError(fs, Resolve(delRet'.path)))
            /\ ~SuccessOutcome(delRet'.status)
            /\ ~NotFoundOutcome(delRet'.status)
            /\ ~SecurityViolation(delRet'.status)
            /\ delRet'.audio = None
            /\ delRet'.choices \in get_generated_files(fs)
            /\ fs' = fs]_vars

\* C16 witness: delete_file was called for a file of the output directory
\* that the process may not remove, and reported the refused permission as
\* an unexpected error; the file is still there.
C16_Witness ==
    /\ delRet.path = <<"generierte_stimmen", "ro", "locked.wav">>
    /\ Exists(fs, delRet.path)
    /\ UnexpectedOutcome(delRet.status)
    /\ Contains(delRet.status, "Permission denied")
    /\ delRet.removed = {}

\* C17: a call with text that is not blank and a reference file whose
\* suffix is ".wav" in any case launches no ffmpeg, has no temporary file to
\* clean and writes none, hands the engine the uploaded path as it is, and
\* its cleanup removes nothing.
C17_WavReferencePassedThrough ==
    \A r \in Requests :
        ( /\ req[r].pc # "idle"
          /\ ~BlankText(req[r].text)
          /\ req[r].speaker_file # None
          /\ ~NonWavFile(req[r].speaker_file) ) =>
            /\ CallsOf(req[r], "ffmpeg") = {}
            /\ req[r].conv_result = NoResult
            /\ req[r].temp_files_to_clean = <<>>
            /\ \A f \in DOMAIN fs : fs[f].by = r => ~IsBelow(TempDir, f)
            /\ CallsOf(req[r], "tts") = {1}
            /\ ArgAfter(req[r].calls[1], "--speaker_wav") = PathStr(req[r].speaker_file)
            /\ ~HasLine(req[r].status_message, "Konvertiere")
            /\ ~HasLine(req[r].status_message, "Temporaere Datei geloescht")
            /\ ~HasLine(req[r].status_message, "Fehler beim Loeschen der temporaeren Datei")

\* C17 witness: a call with the reference take.WAV has returned after the
\* engine exited 0; the reference file is where it was.
C17_Witness ==
    \E r \in Requests :
        /\ req[r].pc = "done"
        /\ req[r].speaker_file = <<"/", "up", "a", "take.WAV">>
        /\ req[r].tts_result.kind = "ok"
        /\ Len(req[r].calls) = 1
        /\ Exists(fs, req[r].speaker_file)

\* C18: the lookup gives every language name of the table its code; every
\* engine command of a call carries, after --language_idx, the code of the
\* call's language when the table has it ("ja" for Japanisch) and "de" when
\* it has not; and a call whose language the table
\* lacks goes on like any other: it launches the engine once its reference
\* is ready and returns the output path when nothing failed.
C18_LanguageCodePassed ==
    /\ \A n \in DOMAIN LANG_MAP : LangIdx(n) = LANG_MAP[n]
    /\ \A r \in Requests :
          LET q == req[r]
          IN  /\ \A i \in CallsOf(q, "tts") :
                    LET code == ArgAfter(q.calls[i], "--language_idx")
                    IN  /\ q.language \in DOMAIN LANG_MAP => code = LANG_MAP[q.language]
                        /\ q.language = "Japanisch" => code = "ja"
                        /\ q.language \notin DOMAIN LANG_MAP => code = "de"
              /\ ( /\ q.language \notin DOMAIN LANG_MAP
                    /\ q.pc # "idle"
                    /\ ~BlankText(q.text)
                    /\ q.speaker_file # None
                    /\ q.conv_result.kind \in {"none", "ok"} ) =>
                      /\ q.pc \in {"converting", "synth", "done"}
                      /\ q.pc # "converting" => CallsOf(q, "tts") # {}
                      /\ (q.pc = "done" /\ q.tts_result.kind = "ok") =>
                            q.audio_output = q.output_path

\* C18 witness: one call with a language the table lacks has returned its
\* output path after an engine run with --language_idx de, another is
\* running the engine with the code ja for Japanisch.
C18_Witness ==
    \E r1, r2 \in Requests :
        /\ req[r1].pc = "done"
        /\ req[r1].language = "Elbisch"
        /\ req[r1].audio_output # None
        /\ ArgAfter(Last(req[r1].calls), "--language_idx") = "de"
        /\ req[r2].pc = "synth"
        /\ req[r2].language = "Japanisch"
        /\ ArgAfter(Last(req[r2].calls), "--language_idx") = "ja"

\* C19 (as claimed): a call with text that is not blank and a reference path
\* at which no file is has returned as soon as it has begun, with no output
\* path, and has launched neither ffmpeg nor tts.
C19_AbsentReferenceRejected ==
    \A r \in Requests :
        ( /\ req[r].pc # "idle"
          /\ ~BlankText(req[r].text)
          /\ req[r].speaker_file # None
          /\ ~Exists(fs, req[r].speaker_file) ) =>
            /\ req[r].pc = "done"
            /\ req[r].audio_output = None
            /\ req[r].calls = <<>>

\* C20 (as claimed): once a call whose conversion failed (non-zero exit,
\* timeout, no ffmpeg) has returned, the file system holds no converted file
\* that the call's own ffmpeg run wrote.
C20_NoOrphanAfterFailedConversion ==
    \A r \in Requests :
        (req[r].pc = "done" /\ req[r].conv_result.kind \in {"exit", "timeout", "missing"}) =>
            LET conv == Resolve(ConvertedPath(req[r].speaker_file))
            IN  ~(conv \in DOMAIN fs /\ fs[conv].by = r)

\* C21 (as claimed): a call that has returned an output path returned the
\* path of a file that is there.
C21_SuccessArtifactExists ==
    \A r \in Requests :
        (req[r].pc = "done" /\ req[r].audio_output # None) =>
            Exists(fs, req[r].audio_output)

\* C22 (as claimed): while a call that converted its reference runs the
\* engine, the converted file it made is at its place and is the one the
\* call's own ffmpeg run wrote: no other call has overwritten or removed it.
C22_TempFileOwnedByItsRequest ==
    \A r \in Requests :
        (req[r].pc = "synth" /\ req[r].temp_files_to_clean # <<>>) =>
            \A i \in DOMAIN req[r].temp_files_to_clean :
                LET t == Resolve(req[r].temp_files_to_clean[i])
                IN  t \in DOMAIN fs /\ fs[t].by = r

\* C23 (as claimed): a listing that has returned holds every file that the
\* glob listed and that no deletion removed before the listing returned.
C23_ListingSnapshotComplete ==
    scan.pc = "returned" =>
        \A f \in scan.kept : \E i \in DOMAIN scan.choices : scan.choices[i].value = f

\* the line the log of a call holds for a failed conversion: what failed,
\* and for a non-zero exit the exit code and the captured standard error
ConversionDiagnostic(res) ==
    "Ein unerwarteter Fehler ist aufgetreten: " \o
      ( CASE res.kind = "missing" -> "FEHLER: 'ffmpeg' wurde nicht gefunden"
          [] res.kind = "timeout" ->
               "FEHLER: 'Audiokonvertierung (ffmpeg)' hat das Zeitlimit ueberschritten"
          [] OTHER -> "FEHLER bei der Audiokonvertierung (ffmpeg):\nExit-Code: "
                        \o ToString(res.returncode) \o "\nFehler: " \o res.stderr )

\* C24: a call whose conversion failed (non-zero exit, timeout, no ffmpeg)
\* has returned with no output path and a log that holds the conversion's
\* diagnostic, and it never launched the engine.
C24_FailedConversionStopsRequest ==
    \A r \in Requests :
        req[r].conv_result.kind \in {"exit", "timeout", "missing"} =>
            /\ req[r].pc = "done"
            /\ req[r].audio_output = None
            /\ HasLine(req[r].status_message, ConversionDiagnostic(req[r].conv_result))
            /\ CallsOf(req[r], "tts") = {}
            /\ req[r].tts_result = NoResult
            /\ Len(req[r].calls) = 1

\* C24 witness: a call with an MP3 reference that is there has returned after
\* ffmpeg exited with code 1 and "Invalid data found when processing input"
\* on its standard error.
C24_Witness ==
    \E r \in Requests :
        /\ req[r].pc = "done"
        /\ Exists(fs, req[r].speaker_file)
        /\ req[r].conv_result.kind = "exit"
        /\ req[r].conv_result.stderr = "Invalid data found when processing input"
        /\ req[r].calls[1][1] = "ffmpeg"

\* the call has returned after a timeout, with the timeout in its log and
\* the clean-up done
TimeoutSurfaced(q) ==
    /\ q.conv_result.kind = "timeout" =>
          HasLine(q.status_message, ConversionDiagnostic(q.conv_result))
    /\ q.tts_result.kind = "timeout" =>
          /\ \E i \in DOMAIN q.status_message :
                /\ StartsWith(q.status_message[i], "Ein unerwarteter Fehler ist aufgetreten: Command")
                /\ EndsWith(q.status_message[i],
                            "timed out after " \o ToString(TtsTimeout) \o " seconds")
          /\ \A i \in DOMAIN q.temp_files_to_clean :
                /\ ~Exists(fs, q.temp_files_to_clean[i])
                /\ HasLine(q.status_message,
                           "Temporaere Datei geloescht: " \o PathStr(q.temp_files_to_clean[i]))

C26_CleanupIdempotent ==
    [][\A r \in Requests :
          ( /\ req[r].pc = "synth"
            /\ req'[r].pc # "synth"
            /\ req[r].temp_files_to_clean # <<>>
            /\ \A i \in DOMAIN req[r].temp_files_to_clean :
                  ~Exists(fs, req[r].temp_files_to_clean[i]) ) =>
              LET kind == req'[r].tts_result.kind
                  log == req'[r].status_message
              IN  /\ req'[r].pc = "done"
                  /\ req'[r].audio_output =
                        (IF kind = "ok" THEN req[r].output_path ELSE None)
                  /\ kind = "ok" => HasLine(log, "Sprache erfolgreich generiert")
                  /\ kind = "exit" => HasLine(log, "Fehler bei der TTS-Generierung")
                  /\ kind \notin {"ok", "exit"} =>
                        HasLine(log, "Ein unerwarteter Fehler ist aufgetreten")
                  /\ HasLine(log, "Fehler beim Loeschen der temporaeren Datei")
                  /\ \A f \in DOMAIN fs : f \in DOMAIN fs']_vars

\* C26 witness: a call has returned its output path after an engine run that
\* exited 0, and its log notes that its temporary file was already gone.
C26_Witness ==
    \E r \in Requests :
        /\ req[r].pc = "done"
        /\ req[r].temp_files_to_clean # <<>>
        /\ req[r].tts_result.kind = "ok"
        /\ req[r].audio_output = req[r].output_path
        /\ HasLine(req[r].status_message, "Fehler beim Loeschen der temporaeren Datei")

\* the name generate_tts gives its output: output_, a timestamp of eight
\* digits, a hyphen and six digits, and the extension .wav
IsArtifactName(n) ==
    /\ Len(n) = 26
    /\ StartsWith(n, "output_")
    /\ EndsWith(n, ".wav")
    /\ SubSeq(n, 16, 16) = "-"
    /\ \A i \in (8..15) \cup (17..22) :
          SubSeq(n, i, i) \in {"0", "1", "2", "3", "4", "5", "6", "7", "8", "9"}

DirectlyInRoot(f) == Len(f) = Len(Root) + 1 /\ IsBelow(Root, f)

RootPaths ==
    { output_dir, Absolute(output_dir), <<"in">>,
      <<"generierte_stimmen", "sub", "..">>, <<"generierte_stimmen", ".">> }

\* C28: the containment check of delete_file is false for every path that
\* resolves to the output directory itself; a call of delete_file with such
\* a path reports the security violation and removes nothing; no call of
\* delete_file removes anything but regular files, so the output directory
\* is still there.
C28_RootDeletionRefused ==
    /\ \A p \in RootPaths : Resolve(p) = Root /\ ~DeletionPermitted(p)
    /\ (delRet.path # None /\ Resolve(delRet.path) = Root) =>
          /\ SecurityViolation(delRet.status)
          /\ delRet.removed = {}
    /\ \A f \in delRet.removed : f \notin Dirs
    /\ Root \in Dirs

\* C28 witness: delete_file was called with the output directory, after a
\* deletion of one of its files, and refused; old.wav and the files below
\* are still there.
C28_Witness ==
    /\ delRet.path = output_dir
    /\ SecurityViolation(delRet.status)
    /\ delRet.removed = {}
    /\ Exists(fs, <<"generierte_stimmen", "old.wav">>)
    /\ ~Exists(fs, <<"generierte_stimmen", "sub", "deep.wav">>)

====
